---- MODULE Spec2Model ----
(***************************************************************************)
(* Model of wrtn/http.py: the HTTPClient of the wrtn.ai API wrapper.        *)
(*                                                                         *)
(* State: the client's session attributes (token, refresh_token,           *)
(* refresh_time, the aiohttp session and connector) and, per running       *)
(* coroutine, the call it is executing: which method, where it is          *)
(* suspended, the requests it has handed to the transport, and how the     *)
(* last request and the call itself ended.                                 *)
(*                                                                         *)
(* A coroutine runs without interruption between two awaits that suspend,  *)
(* so every action is the code from one suspension point to the next:      *)
(* "call" actions run a method up to the transport call of line 128, and   *)
(* "resume" actions run from the arrival of the response to the next       *)
(* transport call or to the end of the method.                             *)
(***************************************************************************)
EXTENDS Integers, Sequences, FiniteSets, TLC

VARIABLES
    token,          \* self.token
    refresh_token,  \* self.refresh_token (the instance attribute)
    refresh_time,   \* self.refresh_time
    connector,      \* self.connector
    session,        \* self.__session: 0 is None, else an index into sessions
    sessions,       \* every aiohttp.ClientSession created so far: "open" / "closed"
    calls           \* per coroutine: the call it is executing

vars == <<token, refresh_token, refresh_time, connector, session, sessions, calls>>

---------------------------------------------------------------------------
(* Values *)

\* Python's None, and the result of looking up a key a mapping lacks.
None == "None"
Absent == "<absent>"

\* Bound on the number of ClientSession objects the login calls may create.
MaxSessions == 2

\* Bearer tokens: two well-formed JWTs and one string that is no JWT.
Tokens == {"tokA", "tokB"}
BadToken == "garbage"
RefreshTokens == {"refA", "refB"}

\* jwt.decode(token, options={"verify_signature": False})["exp"], as a timestamp.
Decodable(tok) == tok \in Tokens
ExpOf(tok) == "exp(" \o tok \o ")"

\* datetime.now() taken in __init__.
ConstructionTime == "now"

\* utils.get_expired_from: the expiry embedded in the token; a token that
\* does not decode leaves the expiry unknown.
get_expired_from(tok) == IF Decodable(tok) THEN ExpOf(tok) ELSE None

\* The substring send_verify_code looks for (romanised here), a server
\* message containing it, one that does not, and the terminal message.
SubscriberMarker == "gudogja sangtae"
MsgMarker == "hyeonjae gudogja sangtae hwagin jung"
MsgOther == "internal error"
MsgTerminal == "imeil injeung kodeu jeonsong silpae"
Contains(msg, marker) == marker = SubscriberMarker /\ msg = MsgMarker

\* range(5) in send_verify_code.
MaxTries == 5

---------------------------------------------------------------------------
(* Responses of the transport *)

\* The "data" member of a JSON body.
Data(kind, provider, access, refresh) ==
    [kind |-> kind, provider |-> provider, accessToken |-> access, refreshToken |-> refresh]
NoData == Data("absent", Absent, Absent, Absent)
DataValues ==
    { NoData,
      Data("dict", Absent, Absent, Absent),
      Data("dict", "local", Absent, Absent),
      Data("dict", "google", Absent, Absent),
      Data("true", Absent, Absent, Absent),
      Data("false", Absent, Absent, Absent),
      Data("int", Absent, Absent, Absent),
      Data("str", Absent, Absent, Absent),
      Data("dict", Absent, "tokB", "refB"),
      Data("dict", Absent, "tokB", Absent),
      Data("dict", Absent, BadToken, "refB") }

\* What response.json() yields: a mapping, a list, or nothing when the
\* text is not JSON.
Mapping(result, message, data) ==
    [kind |-> "map", result |-> result, message |-> message, data |-> data]
JsonList == [kind |-> "list", result |-> Absent, message |-> Absent, data |-> NoData]
NotJson == [kind |-> "invalid", result |-> Absent, message |-> Absent, data |-> NoData]

Mappings ==
    { Mapping(r, m, NoData) : r \in {"SUCCESS", "FAIL", Absent}, m \in {Absent, MsgOther} }
    \cup { Mapping("SUCCESS", MsgMarker, NoData), Mapping("FAIL", MsgMarker, NoData) }
    \cup { Mapping("SUCCESS", Absent, d) : d \in DataValues }

\* A body on the wire: its text, and what a JSON parser makes of that text.
TextOf(json) ==
    CASE json.kind = "invalid" -> "<h1>Bad Gateway</h1>"
      [] json.kind = "list" -> "[]"
      [] OTHER -> "{result:" \o json.result \o ",message:" \o json.message
                  \o ",data:" \o json.data.kind \o "/" \o json.data.provider
                  \o "/" \o json.data.accessToken \o "/" \o json.data.refreshToken \o "}"
WireBody(json) == [text |-> TextOf(json), json |-> json]

StatusCodes == {200, 204, 300, 403, 404, 418, 500, 503}
ContentTypes == {"application/json", "text/html", "text/plain"}

Response(status, ctype, json) ==
    [status |-> status, content_type |-> ctype, body |-> WireBody(json)]

\* The responses the server may give to a request.
Responses ==
    { Response(s, "application/json", j) : s \in StatusCodes, j \in Mappings }
    \cup { Response(s, c, j) : s \in StatusCodes, c \in ContentTypes,
                               j \in {NotJson, JsonList, Mapping("SUCCESS", Absent, NoData),
                                      Mapping("FAIL", Absent, NoData)} }

---------------------------------------------------------------------------
(* Route *)

API == "https://api.wow.wrtn.ai"

\* Route.api(method, path): url = base + path.
Route(method, path) == [method |-> method, path |-> path, url |-> API \o path]

---------------------------------------------------------------------------
(* The request executor: HTTPClient.request *)

\* Headers, reduced to the ones request() decides: Authorization, one of the
\* fixed browser fields (Accept) and Content-Type.
Headers(auth, accept, ctype) ==
    [Authorization |-> auth, Accept |-> accept, ContentType |-> ctype]
NoHeaders == Headers(Absent, Absent, Absent)

\* The headers a caller of request() may pass in kwargs["headers"].
CallerHeaders ==
    { NoHeaders,
      Headers("Bearer forged", Absent, Absent),
      Headers(Absent, "text/csv", "text/csv") }

\* kwargs of request(): headers, and whether a "json" argument is present.
Kwargs(headers, json) == [headers |-> headers, json |-> json]

set_browser_header(header) ==
    [header EXCEPT !.Accept = "application/json, text/plain, */*"]

\* Authorization with the test of line 110 inverted.
Authorization_Inverted(tok) ==
    IF tok = None THEN "Bearer " \o tok ELSE "Bearer undefined"

\* Lines 110-113: the Authorization header for the session's token.
Authorization(tok) ==
    IF tok # None THEN "Bearer " \o tok ELSE "Bearer undefined"

\* BuildHeaders keeping an Authorization header the caller passed.
BuildHeaders_KeepCallers(tok, method, kw) ==
    LET h1 == set_browser_header(kw.headers)
        h2 == IF h1.Authorization = Absent
              THEN [h1 EXCEPT !.Authorization = Authorization(tok)]
              ELSE h1
    IN  IF kw.json
        THEN [h2 EXCEPT !.ContentType =
                 "application/"
                 \o (IF method = "GET" THEN "x-www-form-urlencoded" ELSE "json")
                 \o ";charset=UTF-8"]
        ELSE h2

\* Lines 107-121: the headers request() sends.
BuildHeaders(tok, method, kw) ==
    LET h1 == set_browser_header(kw.headers)
        h2 == [h1 EXCEPT !.Authorization = Authorization(tok)]
    IN  IF kw.json
        THEN [h2 EXCEPT !.ContentType =
                 "application/"
                 \o (IF method = "GET" THEN "x-www-form-urlencoded" ELSE "json")
                 \o ";charset=UTF-8"]
        ELSE h2

\* What line 128 hands to the transport.
BuildRequest(tok, route, kw) ==
    [method |-> route.method, path |-> route.path, url |-> route.url,
     headers |-> BuildHeaders(tok, route.method, kw), json |-> kw.json]

\* The normalized body: the text of the response, or its parsed JSON.
TextBody(text) == [form |-> "text", text |-> text, json |-> NotJson]
JsonBody(json) == [form |-> "json", text |-> None, json |-> json]
NoBody == [form |-> "none", text |-> None, json |-> NotJson]

\* content_type(response) runs no I/O: response.text() and response.json()
\* only create the coroutine that line 137 awaits, so the suppress block of
\* lines 29-30 is left by the return before anything can raise, and line 31
\* is never reached. The result is the coroutine chosen.
content_type(response) ==
    IF response.content_type = "text/html" THEN "text" ELSE "json"

\* aiohttp's ClientResponse.text() and .json(), awaited: json() refuses a
\* content type other than application/json and raises on text that does
\* not parse.
Await(coroutine, response) ==
    CASE coroutine = "text" ->
            [raised |-> None, value |-> TextBody(response.body.text)]
      [] response.content_type # "application/json" ->
            [raised |-> "ContentTypeError", value |-> NoBody]
      [] response.body.json.kind = "invalid" ->
            [raised |-> "JSONDecodeError", value |-> NoBody]
      [] OTHER ->
            [raised |-> None, value |-> JsonBody(response.body.json)]

\* How a call of request() ends: it returns data, or raises.
Returned(data) == [kind |-> "return", err |-> None, status |-> None, data |-> data]
Raised(err, status, data) == [kind |-> "raise", err |-> err, status |-> status, data |-> data]
Pending == [kind |-> "none", err |-> None, status |-> None, data |-> NoBody]

\* data.get("result"): only a mapping has .get.
HasGet(data) == data.form = "json" /\ data.json.kind = "map"
Get(value) == IF value = Absent THEN None ELSE value

IsSuccessStatus(status) == 300 > status /\ status >= 200

\* Classify with the 5xx test written "> 500".
Classify_StrictServerError(status, data) ==
    IF ~HasGet(data) THEN Raised("AttributeError", None, NoBody)
    ELSE IF ~(Get(data.json.result) = "SUCCESS") \/ status = 403
         THEN Raised("Forbidden", status, data)
    ELSE IF status = 404 THEN Raised("NotFound", status, data)
    ELSE IF status > 500 THEN Raised("ServerError", status, data)
    ELSE Raised("HTTPException", status, data)

\* Lines 143-150: the error raised for a status outside [200, 300).
Classify(status, data) ==
    IF ~HasGet(data) THEN Raised("AttributeError", None, NoBody)
    ELSE IF ~(Get(data.json.result) = "SUCCESS") \/ status = 403
         THEN Raised("Forbidden", status, data)
    ELSE IF status = 404 THEN Raised("NotFound", status, data)
    ELSE IF status >= 500 THEN Raised("ServerError", status, data)
    ELSE Raised("HTTPException", status, data)

\* Lines 137-150: request() from the arrival of the response.
request_result(response) ==
    LET got == Await(content_type(response), response)
    IN  IF got.raised # None THEN Raised(got.raised, None, NoBody)
        ELSE IF IsSuccessStatus(response.status) THEN Returned(got.value)
        ELSE Classify(response.status, got.value)

---------------------------------------------------------------------------
(* Calls *)

\* The coroutines that may call the client, and those that do.
TaskIds == {1, 2}
Tasks == DOMAIN calls

NoResponse == Response(0, "none", NotJson)
NoExchange == [response |-> NoResponse, outcome |-> Pending]

\* How a method of the client ends. value names what is returned: "None",
\* "True", "False", "data" (the normalized body) or "data['data']".
OpReturn(value) == [kind |-> "return", err |-> None, value |-> value, message |-> None]
OpRaise(err, message) == [kind |-> "raise", err |-> err, value |-> None, message |-> message]
NoResult == [kind |-> "none", err |-> None, value |-> None, message |-> None]

\* errors.py: an exception raised as Error(response, data) keeps data, the
\* normalized body, as its .message.
ErrorMessage(outcome) == outcome.data

\* e.message.get("message"), line 211: the body's "message" member, or None.
MessageOf(outcome) ==
    IF HasGet(ErrorMessage(outcome)) THEN Get(ErrorMessage(outcome).json.message) ELSE None

\* An exception of request() leaving the method that awaited it.
Propagate(outcome) == OpRaise(outcome.err, MessageOf(outcome))

\* The token arguments of static_login.
Args(tok, rtok) == [token |-> tok, refresh_token |-> rtok]
NoArgs == Args(None, None)

\* op: the method; pc: "idle", "await:<line>" or "done"; args: the tokens
\* passed to static_login; sent: the requests
\* this call passed to the transport; checks: what email_exist returned to
\* local_login; last: the response to the latest request and how request()
\* ended on it; result: how the method ended.
Begin(op) ==
    [op |-> op, pc |-> "run", args |-> NoArgs, sent |-> <<>>, checks |-> <<>>,
     last |-> NoExchange, result |-> NoResult]
IdleCall == [Begin("none") EXCEPT !.pc = "idle"]

Finish(c, result) == [c EXCEPT !.pc = "done", !.result = result]

\* The caller awaits each call: the next one starts when the last has ended.
Idle(t) == t \in Tasks /\ calls[t].pc \in {"idle", "done"}

\* Dispatch that does not need a session to send.
Dispatch_Unguarded(c, line, sess, open, tok, route, kw) ==
    [c EXCEPT !.pc = line, !.sent = Append(@, BuildRequest(tok, route, kw))]

\* Lines 105-128 of request(), called at source line `line` on the session
\* `sess`: without a session the attribute lookup on None raises, a closed
\* session refuses the request, and otherwise the request is on its way and
\* the coroutine is suspended.
Dispatch(c, line, sess, open, tok, route, kw) ==
    IF sess = 0 THEN Finish(c, OpRaise("AttributeError", None))
    ELSE IF ~open THEN Finish(c, OpRaise("RuntimeError", None))
    ELSE [c EXCEPT !.pc = line, !.sent = Append(@, BuildRequest(tok, route, kw))]

\* request() called in the current state of the client.
Send(c, line, route, kw) ==
    Dispatch(c, line, session, session # 0 /\ sessions[session] = "open", token, route, kw)

\* The coroutine t is suspended at `line` of `op` and the response arrives.
Suspended(t, op, line) == t \in Tasks /\ calls[t].op = op /\ calls[t].pc = line

Received(c, response) ==
    [c EXCEPT !.last = [response |-> response, outcome |-> request_result(response)]]

client == <<token, refresh_token, refresh_time, connector, session, sessions>>
tokens == <<token, refresh_token, refresh_time>>
transport == <<connector, session, sessions>>

---------------------------------------------------------------------------
(* Init *)

\* __init__ (lines 64-73), the connector argument left at its default.
Init ==
    /\ token = None
    /\ refresh_token = None
    /\ refresh_time = ConstructionTime
    /\ connector = None
    /\ session = 0
    /\ sessions = <<>>
    /\ calls = [t \in {1} |-> IdleCall]

---------------------------------------------------------------------------
(* request(), close() and clear() called directly *)

\* request(route, **kwargs) called by the user of the client.
request(t) ==
    /\ Idle(t)
    /\ \E method \in {"GET", "POST"}, h \in CallerHeaders, j \in BOOLEAN :
          calls' = [calls EXCEPT ![t] =
                       Send(Begin("request"), "await:128", Route(method, "/chat"), Kwargs(h, j))]
    /\ UNCHANGED client

request_done(c) ==
    Finish(c, IF c.last.outcome.kind = "return" THEN OpReturn("data")
              ELSE Propagate(c.last.outcome))

request_resume(t) ==
    /\ Suspended(t, "request", "await:128")
    /\ \E response \in Responses :
          calls' = [calls EXCEPT ![t] = request_done(Received(@, response))]
    /\ UNCHANGED client

\* close(): lines 152-154.
close(t) ==
    /\ Idle(t)
    /\ sessions' = IF session # 0 THEN [sessions EXCEPT ![session] = "closed"] ELSE sessions
    /\ calls' = [calls EXCEPT ![t] = Finish(Begin("close"), OpReturn("None"))]
    /\ UNCHANGED <<tokens, connector, session>>

\* clear(): lines 75-77.
clear(t) ==
    /\ Idle(t)
    /\ session' = IF session # 0 /\ sessions[session] = "closed" THEN 0 ELSE session
    /\ calls' = [calls EXCEPT ![t] = Finish(Begin("clear"), OpReturn("None"))]
    /\ UNCHANGED <<tokens, connector, sessions>>

---------------------------------------------------------------------------
(* Reading a returned body *)

\* response["data"] on what request() returned: text and lists have no
\* string keys, a mapping may lack the key.
SubscriptError(data, key) ==
    CASE ~HasGet(data) -> "TypeError"
      [] key = "data" /\ data.json.data.kind = "absent" -> "KeyError"
      [] OTHER -> None

\* value[key] for value = response["data"].
MemberError(value, member) ==
    CASE value.kind # "dict" -> "TypeError"
      [] member = Absent -> "KeyError"
      [] OTHER -> None

\* len(response["data"]): mappings and strings have a length, booleans and
\* numbers do not.
HasLen(value) == value.kind \in {"dict", "str"}
Length(value) ==
    IF value.kind = "dict"
    THEN Cardinality({k \in {"provider", "accessToken", "refreshToken"} : value[k] # Absent})
    ELSE Len("true")

---------------------------------------------------------------------------
(* Logging in *)

\* Lines 157-161 and 174-178: a connector is made once, a ClientSession on
\* every call.
NewSession ==
    /\ Len(sessions) < MaxSessions
    /\ connector' = IF connector = None THEN "TCPConnector" ELSE connector
    /\ sessions' = Append(sessions, "open")
    /\ session' = Len(sessions) + 1

\* static_login asking the server about the token before it returns.
static_login_call_Checking(tok, rtok) ==
    Dispatch([Begin("static_login") EXCEPT !.args = Args(tok, rtok)], "await:180",
             Len(sessions) + 1, TRUE, tok, Route("GET", "/auth/check"), Kwargs(NoHeaders, FALSE))

\* static_login, lines 163-167: what the call does to the coroutine. The
\* method awaits nothing, so it ends in the step that starts it.
static_login_call(tok, rtok) ==
    Finish([Begin("static_login") EXCEPT !.args = Args(tok, rtok)],
           IF Decodable(tok) THEN OpReturn("None") ELSE OpRaise("DecodeError", None))

\* static_login(token, refresh_token).
static_login(t) ==
    /\ Idle(t)
    /\ NewSession
    /\ \E tok \in {"tokA", BadToken}, rtok \in {"refA"} :
          /\ token' = tok
          /\ refresh_token' = rtok
          /\ refresh_time' = IF Decodable(tok) THEN ExpOf(tok) ELSE refresh_time
          /\ calls' = [calls EXCEPT ![t] = static_login_call(tok, rtok)]

\* email_exist_result without the provider test of lines 199-200.
email_exist_result_AnyProvider(data) ==
    LET value == data.json.data IN
    CASE SubscriptError(data, "data") # None -> OpRaise(SubscriptError(data, "data"), None)
      [] ~HasLen(value) -> OpRaise("TypeError", None)
      [] Length(value) = 0 -> OpReturn("False")
      [] OTHER -> OpReturn("True")

\* email_exist, lines 197-201, on the body request() returned: the value
\* returned ("True" / "False") or the exception raised.
email_exist_result(data) ==
    LET value == data.json.data IN
    CASE SubscriptError(data, "data") # None -> OpRaise(SubscriptError(data, "data"), None)
      [] ~HasLen(value) -> OpRaise("TypeError", None)
      [] Length(value) = 0 -> OpReturn("False")
      [] MemberError(value, value.provider) # None ->
            OpRaise(MemberError(value, value.provider), None)
      [] ~(value.provider = "local") -> OpReturn("False")
      [] OTHER -> OpReturn("True")

\* email_exist from the arrival of the response: what it hands to its caller.
email_exist_end(outcome) ==
    IF outcome.kind = "return" THEN email_exist_result(outcome.data)
    ELSE Propagate(outcome)

CheckRoute == Route("GET", "/auth/check")
LoginRoute == Route("POST", "/auth/local")

\* email_exist(email) called by the user of the client.
email_exist(t) ==
    /\ Idle(t)
    /\ calls' = [calls EXCEPT ![t] =
                   Send(Begin("email_exist"), "await:194", CheckRoute, Kwargs(NoHeaders, FALSE))]
    /\ UNCHANGED client

email_exist_resume(t) ==
    /\ Suspended(t, "email_exist", "await:194")
    /\ \E response \in Responses :
          calls' = [calls EXCEPT ![t] =
                       LET c == Received(@, response)
                       IN  Finish(c, email_exist_end(c.last.outcome))]
    /\ UNCHANGED client

\* local_login, lines 174-180: the session is made, then email_exist is
\* awaited for the first time.
local_login(t) ==
    /\ Idle(t)
    /\ NewSession
    /\ calls' = [calls EXCEPT ![t] =
                   Dispatch(Begin("local_login"), "await:180", Len(sessions) + 1, TRUE, token,
                            CheckRoute, Kwargs(NoHeaders, FALSE))]
    /\ UNCHANGED tokens

\* local_login_checked going on to the second check whatever the first said.
local_login_checked_Unheeded(c, exists) ==
    IF exists.kind = "raise" THEN Finish(c, exists)
    ELSE Send(c, "await:183", Route("GET", "/auth/check"), Kwargs(NoHeaders, FALSE))

\* Lines 180-183: the first email_exist has ended with `exists`; unless it
\* raised or returned False, email_exist is awaited again.
local_login_checked(c, exists) ==
    CASE exists.kind = "raise" -> Finish(c, exists)
      [] exists.value = "False" ->
            Finish(c, OpRaise("UserNotFound", "You are not signed in or are not a local user."))
      [] OTHER -> Send(c, "await:183", CheckRoute, Kwargs(NoHeaders, FALSE))

local_login_resume_180(t) ==
    /\ Suspended(t, "local_login", "await:180")
    /\ \E response \in Responses :
          calls' = [calls EXCEPT ![t] =
                       LET c == Received(@, response)
                           exists == email_exist_end(c.last.outcome)
                       IN  local_login_checked(
                               [c EXCEPT !.checks = Append(@, exists.value)], exists)]
    /\ UNCHANGED client

\* Lines 183-188: the second email_exist has ended; its value is dropped,
\* and unless it raised the login request is sent.
local_login_rechecked(c, exists) ==
    IF exists.kind = "raise" THEN Finish(c, exists)
    ELSE Send(c, "await:185", LoginRoute, Kwargs(NoHeaders, TRUE))

local_login_resume_183(t) ==
    /\ Suspended(t, "local_login", "await:183")
    /\ \E response \in Responses :
          calls' = [calls EXCEPT ![t] =
                       LET c == Received(@, response)
                           exists == email_exist_end(c.last.outcome)
                       IN  local_login_rechecked(
                               [c EXCEPT !.checks = Append(@, exists.value)], exists)]
    /\ UNCHANGED client

\* Lines 189-191 on the body the login request returned: the three
\* assignments in order, each of which may raise and leave the later ones
\* undone.
local_login_store(data, old) ==
    LET value == data.json.data IN
    CASE SubscriptError(data, "data") # None ->
            [old EXCEPT !.result = OpRaise(SubscriptError(data, "data"), None)]
      [] MemberError(value, value.accessToken) # None ->
            [old EXCEPT !.result = OpRaise(MemberError(value, value.accessToken), None)]
      [] MemberError(value, value.refreshToken) # None ->
            [old EXCEPT !.token = value.accessToken,
                        !.result = OpRaise(MemberError(value, value.refreshToken), None)]
      [] OTHER ->
            [token |-> value.accessToken, refresh_token |-> value.refreshToken,
             refresh_time |-> get_expired_from(value.accessToken),
             result |-> OpReturn("None")]

\* The session attributes, with the result of the method that writes them.
Stored(result) ==
    [token |-> token, refresh_token |-> refresh_token, refresh_time |-> refresh_time,
     result |-> result]

\* local_login_resume_185 logging the client out when the login request fails.
local_login_resume_185_LogsOut(t) ==
    /\ Suspended(t, "local_login", "await:185")
    /\ \E response \in Responses :
          LET c == Received(calls[t], response)
              new == IF c.last.outcome.kind = "return"
                     THEN local_login_store(c.last.outcome.data, Stored(NoResult))
                     ELSE [token |-> None, refresh_token |-> None, refresh_time |-> None,
                           result |-> Propagate(c.last.outcome)]
          IN  /\ token' = new.token
              /\ refresh_token' = new.refresh_token
              /\ refresh_time' = new.refresh_time
              /\ calls' = [calls EXCEPT ![t] = Finish(c, new.result)]
    /\ UNCHANGED transport

local_login_resume_185(t) ==
    /\ Suspended(t, "local_login", "await:185")
    /\ \E response \in Responses :
          LET c == Received(calls[t], response)
              new == IF c.last.outcome.kind = "return"
                     THEN local_login_store(c.last.outcome.data, Stored(NoResult))
                     ELSE Stored(Propagate(c.last.outcome))
          IN  /\ token' = new.token
              /\ refresh_token' = new.refresh_token
              /\ refresh_time' = new.refresh_time
              /\ calls' = [calls EXCEPT ![t] = Finish(c, new.result)]
    /\ UNCHANGED transport

---------------------------------------------------------------------------
(* Verification codes *)

SendCodeRoute == Route("POST", "/auth/code")

\* send_verify_code(email): the first pass of the loop of line 204.
send_verify_code(t) ==
    /\ Idle(t)
    /\ calls' = [calls EXCEPT ![t] =
                   Send(Begin("send_verify_code"), "await:206", SendCodeRoute,
                        Kwargs(NoHeaders, FALSE))]
    /\ UNCHANGED client

\* Lines 209-215, after the attempt number Len(c.sent) ended with `outcome`:
\* return, raise, or go round the loop again.
send_verify_code_next(c, outcome) ==
    CASE outcome.kind = "return" -> Finish(c, OpReturn("None"))
      [] outcome.err # "ServerError" -> Finish(c, Propagate(outcome))
      [] MessageOf(outcome) = None -> Finish(c, OpRaise("TypeError", None))
      [] ~Contains(MessageOf(outcome), SubscriberMarker) -> Finish(c, Propagate(outcome))
      [] Len(c.sent) < MaxTries ->
            Send(c, "await:206", SendCodeRoute, Kwargs(NoHeaders, FALSE))
      [] OTHER -> Finish(c, OpRaise("ServerError", MsgTerminal))

send_verify_code_resume(t) ==
    /\ Suspended(t, "send_verify_code", "await:206")
    /\ \E response \in Responses :
          calls' = [calls EXCEPT ![t] =
                       LET c == Received(@, response)
                       IN  send_verify_code_next(c, c.last.outcome)]
    /\ UNCHANGED client

\* enter_verify_code, lines 225-226, on the body request() returned.
enter_verify_code_result(data) ==
    CASE ~HasGet(data) -> OpRaise("AttributeError", None)
      [] data.json.data.kind = "absent" \/ data.json.data.kind # "true" ->
            OpRaise("InvalidEmailVerifyCode", None)
      [] OTHER -> OpReturn("None")

enter_verify_code(t) ==
    /\ Idle(t)
    /\ calls' = [calls EXCEPT ![t] =
                   Send(Begin("enter_verify_code"), "await:222", Route("GET", "/auth/code"),
                        Kwargs(NoHeaders, FALSE))]
    /\ UNCHANGED client

enter_verify_code_resume(t) ==
    /\ Suspended(t, "enter_verify_code", "await:222")
    /\ \E response \in Responses :
          calls' = [calls EXCEPT ![t] =
                       LET c == Received(@, response)
                       IN  Finish(c, IF c.last.outcome.kind = "return"
                                     THEN enter_verify_code_result(c.last.outcome.data)
                                     ELSE Propagate(c.last.outcome))]
    /\ UNCHANGED client

---------------------------------------------------------------------------
(* Single-request methods *)

\* A method that awaits one request and returns None, or response["data"].
ReturnsNone(outcome) ==
    IF outcome.kind = "return" THEN OpReturn("None") ELSE Propagate(outcome)

ReturnsData(outcome) ==
    CASE outcome.kind # "return" -> Propagate(outcome)
      [] SubscriptError(outcome.data, "data") # None ->
            OpRaise(SubscriptError(outcome.data, "data"), None)
      [] OTHER -> OpReturn("data['data']")

Started(t, op, line, route, json) ==
    [calls EXCEPT ![t] = Send(Begin(op), line, route, Kwargs(NoHeaders, json))]

register(t) ==
    /\ Idle(t)
    /\ calls' = Started(t, "register", "await:235", Route("POST", "/auth/register"), TRUE)
    /\ UNCHANGED client

register_resume(t) ==
    /\ Suspended(t, "register", "await:235")
    /\ \E response \in Responses :
          calls' = [calls EXCEPT ![t] =
                       LET c == Received(@, response) IN Finish(c, ReturnsNone(c.last.outcome))]
    /\ UNCHANGED client

update_agreement(t) ==
    /\ Idle(t)
    /\ calls' = Started(t, "update_agreement", "await:250", Route("PUT", "/user"), TRUE)
    /\ UNCHANGED client

update_agreement_resume(t) ==
    /\ Suspended(t, "update_agreement", "await:250")
    /\ \E response \in Responses :
          calls' = [calls EXCEPT ![t] =
                       LET c == Received(@, response) IN Finish(c, ReturnsNone(c.last.outcome))]
    /\ UNCHANGED client

update_info(t) ==
    /\ Idle(t)
    /\ calls' = Started(t, "update_info", "await:264", Route("PUT", "/user"), TRUE)
    /\ UNCHANGED client

update_info_resume(t) ==
    /\ Suspended(t, "update_info", "await:264")
    /\ \E response \in Responses :
          calls' = [calls EXCEPT ![t] =
                       LET c == Received(@, response) IN Finish(c, ReturnsNone(c.last.outcome))]
    /\ UNCHANGED client

get_user(t) ==
    /\ Idle(t)
    /\ calls' = Started(t, "get_user", "await:273", Route("GET", "/user"), FALSE)
    /\ UNCHANGED client

\* get_user_resume dropping the session's token when the request is refused.
get_user_resume_DropsToken(t) ==
    /\ Suspended(t, "get_user", "await:273")
    /\ \E response \in Responses :
          /\ calls' = [calls EXCEPT ![t] =
                          LET c == Received(@, response)
                          IN  Finish(c, ReturnsData(c.last.outcome))]
          /\ token' = IF request_result(response).err = "Forbidden" THEN None ELSE token
    /\ UNCHANGED <<refresh_token, refresh_time, transport>>

get_user_resume(t) ==
    /\ Suspended(t, "get_user", "await:273")
    /\ \E response \in Responses :
          calls' = [calls EXCEPT ![t] =
                       LET c == Received(@, response) IN Finish(c, ReturnsData(c.last.outcome))]
    /\ UNCHANGED client

get_chat_room(t) ==
    /\ Idle(t)
    /\ calls' = Started(t, "get_chat_room", "await:279", Route("GET", "/chat"), FALSE)
    /\ UNCHANGED client

get_chat_room_resume(t) ==
    /\ Suspended(t, "get_chat_room", "await:279")
    /\ \E response \in Responses :
          calls' = [calls EXCEPT ![t] =
                       LET c == Received(@, response) IN Finish(c, ReturnsData(c.last.outcome))]
    /\ UNCHANGED client

---------------------------------------------------------------------------
(* Refreshing the token *)

RefreshRoute == Route("POST", "/auth/refresh")

\* client.refresh_token(): __init__ (line 70) and the logins (lines 164,
\* 190) store the refresh token in the instance attribute refresh_token,
\* which hides the method of the same name. The attribute is None or a
\* string, and calling it raises TypeError before any line of the method
\* runs.
refresh_token_call ==
    Finish(Begin("refresh_token"), OpRaise("TypeError", None))

refresh(t) ==
    /\ Idle(t)
    /\ calls' = [calls EXCEPT ![t] = refresh_token_call]
    /\ UNCHANGED client

\* HTTPClient.refresh_token(client): the method reached through the class,
\* line 283.
refresh_token_method(t) ==
    /\ Idle(t)
    /\ calls' = [calls EXCEPT ![t] =
                   Send(Begin("HTTPClient.refresh_token"), "await:283", RefreshRoute,
                        Kwargs(NoHeaders, FALSE))]
    /\ UNCHANGED client

\* Lines 284-285 on the body the refresh request returned.
refresh_token_store(data, old) ==
    LET value == data.json.data IN
    CASE SubscriptError(data, "data") # None ->
            [old EXCEPT !.result = OpRaise(SubscriptError(data, "data"), None)]
      [] MemberError(value, value.accessToken) # None ->
            [old EXCEPT !.result = OpRaise(MemberError(value, value.accessToken), None)]
      [] OTHER ->
            [old EXCEPT !.token = value.accessToken,
                        !.refresh_time = get_expired_from(value.accessToken),
                        !.result = OpReturn("None")]

refresh_token_resume(t) ==
    /\ Suspended(t, "HTTPClient.refresh_token", "await:283")
    /\ \E response \in Responses :
          LET c == Received(calls[t], response)
              new == IF c.last.outcome.kind = "return"
                     THEN refresh_token_store(c.last.outcome.data, Stored(NoResult))
                     ELSE Stored(Propagate(c.last.outcome))
          IN  /\ token' = new.token
              /\ refresh_token' = new.refresh_token
              /\ refresh_time' = new.refresh_time
              /\ calls' = [calls EXCEPT ![t] = Finish(c, new.result)]
    /\ UNCHANGED transport

---------------------------------------------------------------------------
(* Specification *)

Next ==
    \/ \E t \in TaskIds : request(t)
    \/ \E t \in TaskIds : request_resume(t)
    \/ \E t \in TaskIds : close(t)
    \/ \E t \in TaskIds : clear(t)
    \/ \E t \in TaskIds : static_login(t)
    \/ \E t \in TaskIds : local_login(t)
    \/ \E t \in TaskIds : local_login_resume_180(t)
    \/ \E t \in TaskIds : local_login_resume_183(t)
    \/ \E t \in TaskIds : local_login_resume_185(t)
    \/ \E t \in TaskIds : email_exist(t)
    \/ \E t \in TaskIds : email_exist_resume(t)
    \/ \E t \in TaskIds : send_verify_code(t)
    \/ \E t \in TaskIds : send_verify_code_resume(t)
    \/ \E t \in TaskIds : enter_verify_code(t)
    \/ \E t \in TaskIds : enter_verify_code_resume(t)
    \/ \E t \in TaskIds : register(t)
    \/ \E t \in TaskIds : register_resume(t)
    \/ \E t \in TaskIds : update_agreement(t)
    \/ \E t \in TaskIds : update_agreement_resume(t)
    \/ \E t \in TaskIds : update_info(t)
    \/ \E t \in TaskIds : update_info_resume(t)
    \/ \E t \in TaskIds : get_user(t)
    \/ \E t \in TaskIds : get_user_resume(t)
    \/ \E t \in TaskIds : get_chat_room(t)
    \/ \E t \in TaskIds : get_chat_room_resume(t)
    \/ \E t \in TaskIds : refresh(t)
    \/ \E t \in TaskIds : refresh_token_method(t)
    \/ \E t \in TaskIds : refresh_token_resume(t)

Spec == Init /\ [][Next]_vars

---------------------------------------------------------------------------
(* Two coroutines on one client *)

\* The client of Init with a second coroutine: asyncio runs each coroutine
\* without interruption from one await to the next, and request() has no
\* lock (lines 100-150), so the steps of the two interleave at the awaits.
InitConcurrent ==
    /\ token = None
    /\ refresh_token = None
    /\ refresh_time = ConstructionTime
    /\ connector = None
    /\ session = 0
    /\ sessions = <<>>
    /\ calls = [t \in TaskIds |-> IdleCall]

\* Coroutine 1 asks for the user again and again while coroutine 2 logs in
\* and refreshes the token.
NextConcurrent ==
    \/ \E t \in {1} : get_user(t)
    \/ \E t \in {1} : get_user_resume(t)
    \/ \E t \in {2} : static_login(t)
    \/ \E t \in {2} : refresh_token_method(t)
    \/ \E t \in {2} : refresh_token_resume(t)

SpecConcurrent == InitConcurrent /\ [][NextConcurrent]_vars

---------------------------------------------------------------------------
(* Properties of the executor *)

\* The calls for which request() has run to its end on a response.
Exchanged == {t \in Tasks : calls[t].last # NoExchange}
ResponseOf(t) == calls[t].last.response
OutcomeOf(t) == calls[t].last.outcome

\* The normalized body a response stands for: the text of an HTML response,
\* the parsed body when the transport can parse it, and else the text.
Normalized(response) ==
    IF response.content_type # "text/html" /\ Await("json", response).raised = None
    THEN JsonBody(response.body.json)
    ELSE TextBody(response.body.text)

\* The normalized body has a result field equal to "SUCCESS".
HasSuccessResult(response) ==
    /\ Normalized(response).form = "json"
    /\ Normalized(response).json.kind = "map"
    /\ Normalized(response).json.result = "SUCCESS"

\* C1: for every response with a status outside [200,300), when the
\* normalized body has no result field equal to "SUCCESS", or the status is
\* 403, request() raises Forbidden, whatever the status.
C1_ForbiddenPrecedence ==
    \A t \in Exchanged :
        (/\ ~IsSuccessStatus(ResponseOf(t).status)
         /\ (~HasSuccessResult(ResponseOf(t)) \/ ResponseOf(t).status = 403))
        => (OutcomeOf(t).kind = "raise" /\ OutcomeOf(t).err = "Forbidden")

\* The typed error C2 names for a status.
ErrorForStatus(status) ==
    IF status = 404 THEN "NotFound"
    ELSE IF status >= 500 THEN "ServerError"
    ELSE "HTTPException"

\* C2: for every response with a status outside [200,300) and other than
\* 403 whose body has result "SUCCESS", request() raises NotFound for 404,
\* ServerError for a status of 500 or more and the generic HTTPException
\* for every other status, carrying the status and the body.
C2_StatusErrors ==
    \A t \in Exchanged :
        (/\ ~IsSuccessStatus(ResponseOf(t).status)
         /\ ResponseOf(t).status # 403
         /\ HasSuccessResult(ResponseOf(t)))
        => OutcomeOf(t) = Raised(ErrorForStatus(ResponseOf(t).status),
                                 ResponseOf(t).status, Normalized(ResponseOf(t)))

\* C2 witness: a 418 with a SUCCESS body has ended in the generic error.
C2_Witness ==
    \E t \in Exchanged :
        /\ ResponseOf(t).status = 418
        /\ HasSuccessResult(ResponseOf(t))
        /\ OutcomeOf(t).err = "HTTPException"

\* C3: for every response with a status in [200,300), request() returns the
\* normalized body and raises nothing, whether the body is a mapping or text.
C3_SuccessReturnsBody ==
    \A t \in Exchanged :
        IsSuccessStatus(ResponseOf(t).status)
        => OutcomeOf(t) = Returned(Normalized(ResponseOf(t)))

\* C4: a response that is not HTML and whose body is not valid JSON is
\* normalized to its text without raising: request() works on the text.
C4_BadJsonBecomesText ==
    \A t \in Exchanged :
        (/\ ResponseOf(t).content_type # "text/html"
         /\ ResponseOf(t).body.json.kind = "invalid")
        => /\ OutcomeOf(t).err \notin {"JSONDecodeError", "ContentTypeError"}
           /\ IsSuccessStatus(ResponseOf(t).status)
              => OutcomeOf(t) = Returned(TextBody(ResponseOf(t).body.text))

---------------------------------------------------------------------------
(* Properties of the methods *)

Ended(t) == calls[t].pc = "done"
InFlight(t) == calls[t].pc \notin {"idle", "done"}
IsRequest(req, method, path) == req.method = method /\ req.path = path
Last(seq) == seq[Len(seq)]

\* The attempt failed with a ServerError whose message has the marker.
MarkedServerError(t) ==
    /\ OutcomeOf(t).kind = "raise"
    /\ OutcomeOf(t).err = "ServerError"
    /\ Normalized(ResponseOf(t)).json.message # Absent
    /\ Contains(Normalized(ResponseOf(t)).json.message, SubscriberMarker)

\* C5: send_verify_code sends POST /auth/code, at most 5 times; it tries
\* again exactly when the attempt failed with a ServerError whose message
\* has the subscriber-status marker; after the 5th such failure it raises
\* the terminal ServerError; a successful attempt returns at once; any
\* other error leaves the method as it is, with no further attempt.
C5_RetryWhileMarked ==
    \A t \in Tasks :
        calls[t].op = "send_verify_code" =>
            /\ Len(calls[t].sent) <= MaxTries
            /\ \A i \in 1..Len(calls[t].sent) : IsRequest(calls[t].sent[i], "POST", "/auth/code")
            /\ (InFlight(t) /\ Len(calls[t].sent) > 1) => MarkedServerError(t)
            /\ (Ended(t) /\ t \in Exchanged) =>
                  CASE OutcomeOf(t).kind = "return" -> calls[t].result = OpReturn("None")
                    [] MarkedServerError(t) ->
                          /\ Len(calls[t].sent) = MaxTries
                          /\ calls[t].result = OpRaise("ServerError", MsgTerminal)
                    [] OTHER ->
                          /\ calls[t].result.kind = "raise"
                          /\ calls[t].result.err = OutcomeOf(t).err

\* The response tells that the email is no local-provider account: no
\* account data, or an account of another provider.
ReportsNotLocal(response) ==
    /\ IsSuccessStatus(response.status)
    /\ Normalized(response).form = "json"
    /\ Normalized(response).json.kind = "map"
    /\ Normalized(response).json.data.kind = "dict"
    /\ Normalized(response).json.data.provider # "local"
    /\ (\/ Length(Normalized(response).json.data) = 0
        \/ Normalized(response).json.data.provider # Absent)

\* C6: local_login sends GET /auth/check before anything else, and when
\* that check tells that the email is no local-provider account the call
\* raises UserNotFound and POST /auth/local is not sent in that call.
C6_CheckBeforeLogin ==
    \A t \in Tasks :
        calls[t].op = "local_login" =>
            /\ Len(calls[t].sent) >= 1
            /\ IsRequest(calls[t].sent[1], "GET", "/auth/check")
            /\ (Len(calls[t].sent) = 1 /\ t \in Exchanged /\ ReportsNotLocal(ResponseOf(t)))
                  => calls[t].checks = <<"False">>
            /\ (Len(calls[t].checks) >= 1 /\ calls[t].checks[1] = "False") =>
                  /\ Ended(t)
                  /\ calls[t].result.kind = "raise"
                  /\ calls[t].result.err = "UserNotFound"
                  /\ \A i \in 1..Len(calls[t].sent) :
                        ~IsRequest(calls[t].sent[i], "POST", "/auth/local")

\* C6 witness: a login has ended in UserNotFound after a check that found
\* an account of another provider.
C6_Witness ==
    \E t \in Exchanged :
        /\ calls[t].op = "local_login"
        /\ Ended(t)
        /\ ReportsNotLocal(ResponseOf(t))
        /\ Normalized(ResponseOf(t)).json.data.provider = "google"
        /\ calls[t].result.err = "UserNotFound"

\* C7: static_login sends no request, to /auth/check, /auth/local or any
\* other endpoint: it ends at once, with the session's token and refresh
\* token set from its arguments.
C7_TokenLoginSendsNothing ==
    \A t \in Tasks :
        calls[t].op = "static_login" =>
            /\ calls[t].sent = <<>>
            /\ calls[t].last = NoExchange
            /\ Ended(t)
            /\ token = calls[t].args.token
            /\ refresh_token = calls[t].args.refresh_token

\* C7 witness: a static_login has returned on a client that had logged in
\* before.
C7_Witness ==
    \E t \in Tasks :
        /\ calls[t].op = "static_login"
        /\ calls[t].result = OpReturn("None")
        /\ token = "tokA"
        /\ Len(sessions) = MaxSessions

\* A step in which the coroutine t hands a request to the transport.
Sends(t) ==
    /\ t \in Tasks
    /\ calls'[t] # calls[t]
    /\ calls'[t].pc \notin {"idle", "done"}

\* C8: every request handed to the transport carries the Authorization
\* header "Bearer undefined" when the session holds no token and "Bearer "
\* followed by the session's token otherwise, whatever headers the caller
\* passed and whatever logins and refreshes came before.
C8_AuthorizationHeader ==
    [][\A t \in TaskIds :
          Sends(t) =>
              Last(calls'[t].sent).headers.Authorization =
                  (IF token = None THEN "Bearer undefined" ELSE "Bearer " \o token)]_vars

\* C8 witness: after a login stored a token from the server, a direct
\* request is in flight with that token; a login before it went out with
\* "Bearer undefined".
C8_Witness ==
    \E t \in Tasks :
        /\ calls[t].op = "request"
        /\ InFlight(t)
        /\ token = "tokB"
        /\ Last(calls[t].sent).headers.Authorization = "Bearer tokB"

\* C9: email_exist returns False when the data of a successful response is
\* empty, False when the account's provider is not "local", and True only
\* for an account record with provider "local"; it raises for none of these.
C9_EmailExist ==
    \A t \in Exchanged :
        (calls[t].op = "email_exist" /\ Ended(t)) =>
            LET response == ResponseOf(t)
                data == Normalized(response).json.data
                ok == /\ IsSuccessStatus(response.status)
                      /\ Normalized(response).form = "json"
                      /\ Normalized(response).json.kind = "map"
            IN  /\ (ok /\ data.kind = "dict" /\ Length(data) = 0)
                      => calls[t].result = OpReturn("False")
                /\ (ok /\ data.kind = "dict" /\ data.provider \notin {Absent, "local"})
                      => calls[t].result = OpReturn("False")
                /\ (ok /\ data.kind = "dict" /\ data.provider = "local")
                      => calls[t].result = OpReturn("True")
                /\ calls[t].result.value = "True"
                      => (ok /\ data.kind = "dict" /\ data.provider = "local")

\* C9 witness: email_exist has returned True.
C9_Witness ==
    \E t \in Exchanged :
        /\ calls[t].op = "email_exist"
        /\ calls[t].result = OpReturn("True")

\* The client has logged in: a login call has made the session it uses.
LoggedIn == session # 0 /\ sessions[session] = "open"

\* C10: refresh, called on a client that has logged in, sends POST
\* /auth/refresh with no body and, when the response is a success, stores
\* the response's access token as the session token, with the expiry
\* computed from that token.
C10_RefreshStoresToken ==
    \A t \in Tasks :
        (calls[t].op \in {"refresh_token", "HTTPClient.refresh_token"} /\ Ended(t) /\ LoggedIn) =>
            /\ Len(calls[t].sent) = 1
            /\ IsRequest(calls[t].sent[1], "POST", "/auth/refresh")
            /\ ~calls[t].sent[1].json
            /\ (/\ IsSuccessStatus(ResponseOf(t).status)
                /\ Normalized(ResponseOf(t)).json.data.accessToken # Absent)
               => /\ token = Normalized(ResponseOf(t)).json.data.accessToken
                  /\ refresh_time = get_expired_from(token)

---------------------------------------------------------------------------
(* Properties of the session *)

\* A step of the coroutine t.
Steps(t) == t \in Tasks /\ calls'[t] # calls[t]

\* C11: the session is never partially updated: whenever a login or refresh
\* changes token, refresh token or expiry, the call has succeeded, the
\* expiry stored is the expiry of the token stored, and the refresh token
\* stored is the one that came with that token; a call that fails at any
\* step changes none of the three.
C11_SessionWhole ==
    [][tokens' # tokens =>
          \E t \in Tasks :
              /\ Steps(t)
              /\ calls'[t].result.kind = "return"
              /\ token' # None
              /\ refresh_time' = ExpOf(token')
              /\ calls'[t].op = "static_login"
                    => refresh_token' = calls'[t].args.refresh_token
              /\ calls'[t].op = "local_login"
                    => refresh_token' =
                          Normalized(calls'[t].last.response).json.data.refreshToken]_vars

\* The normalized body has a data field that is the boolean true.
DataIsTrue(response) ==
    /\ Normalized(response).form = "json"
    /\ Normalized(response).json.kind = "map"
    /\ Normalized(response).json.data.kind = "true"

\* C12: on every response with a status in [200,300), enter_verify_code
\* raises InvalidEmailVerifyCode when the data field of the body is absent
\* or is anything but the boolean true, and returns only when it is true.
C12_OnlyTrueVerifies ==
    \A t \in Exchanged :
        (/\ calls[t].op = "enter_verify_code"
         /\ Ended(t)
         /\ IsSuccessStatus(ResponseOf(t).status))
        => calls[t].result = IF DataIsTrue(ResponseOf(t))
                             THEN OpReturn("None")
                             ELSE OpRaise("InvalidEmailVerifyCode", None)

\* C13: the logins create one transport session between them, and after
\* close() no session the client created is open.
C13_OneSession ==
    /\ Len(sessions) <= 1
    /\ \A t \in Tasks :
          (calls[t].op = "close" /\ Ended(t))
          => \A i \in 1..Len(sessions) : sessions[i] = "closed"

\* The errors of errors.py that request() and local_login raise.
TypedErrors == {"Forbidden", "NotFound", "ServerError", "HTTPException", "UserNotFound"}

\* C14: a local_login call that ends with UserNotFound or with a typed
\* error of the existence checks or of the login request leaves token,
\* refresh token and expiry as they were; a step of local_login changes
\* them only when it receives the response to POST /auth/local and
\* request() returned on it, that is, on a success response.
C14_FailedLoginKeepsSession ==
    [][\A t \in Tasks :
          (Steps(t) /\ calls'[t].op = "local_login")
          => /\ calls'[t].result.err \in TypedErrors => tokens' = tokens
             /\ tokens' # tokens =>
                   /\ calls[t].pc = "await:185"
                   /\ IsRequest(Last(calls[t].sent), "POST", "/auth/local")
                   /\ calls'[t].last.outcome.kind = "return"
                   /\ IsSuccessStatus(calls'[t].last.response.status)]_vars

\* A local_login of a logged-in client has failed on the login request
\* with Forbidden and the session still holds the token of static_login.
C14_Witness ==
    \E t \in Tasks :
        /\ calls[t].op = "local_login"
        /\ Ended(t)
        /\ Len(calls[t].sent) = 3
        /\ calls[t].result.err = "Forbidden"
        /\ tokens = <<"tokA", "refA", ExpOf("tokA")>>

\* The methods that are neither a login nor a refresh.
SessionReaders ==
    {"request", "email_exist", "send_verify_code", "enter_verify_code", "register",
     "update_agreement", "update_info", "get_user", "get_chat_room"}

\* C15: request, email_exist, send_verify_code, enter_verify_code,
\* register, update_agreement, update_info, get_user and get_chat_room
\* leave token, refresh token and expiry unchanged in each of their steps,
\* whether they return or raise, for every response.
C15_OnlyLoginWrites ==
    [][\A t \in Tasks :
          (Steps(t) /\ calls'[t].op \in SessionReaders) => tokens' = tokens]_vars

\* get_user of a logged-in client was refused and the token is still held.
C15_Witness ==
    \E t \in Tasks :
        /\ calls[t].op = "get_user"
        /\ Ended(t)
        /\ calls[t].result.err = "Forbidden"
        /\ token = "tokA"

\* C16: with two coroutines on one client, the step that hands a request
\* to the transport reads the token once: the Authorization header of the
\* request is made of the token the session holds in that step ("Bearer
\* undefined" when it holds none), the step stores no token itself, and so
\* the header is never made of a value the session did not hold then; a
\* token stored later leaves the request in flight with the stale token.
C16_TokenReadAtBuild ==
    [][\A t \in Tasks :
          Sends(t) =>
              /\ token' = token
              /\ Last(calls'[t].sent).headers.Authorization =
                    (IF token = None THEN "Bearer undefined" ELSE "Bearer " \o token)
              /\ \A u \in Tasks \ {t} : calls'[u] = calls[u]]_vars

\* get_user is in flight with the token of the login, and the refresh of
\* the other coroutine has stored a new token since.
C16_Witness ==
    /\ calls[1].op = "get_user"
    /\ InFlight(1)
    /\ Last(calls[1].sent).headers.Authorization = "Bearer tokA"
    /\ calls[2].op = "HTTPClient.refresh_token"
    /\ Ended(2)
    /\ token = "tokB"

\* C17: on every response with a status outside [200,300) whose normalized
\* body is text (an HTML response, or a body that is no valid JSON),
\* request() raises Forbidden carrying the status and the text body.
C17_TextBodyForbidden ==
    \A t \in Exchanged :
        (/\ ~IsSuccessStatus(ResponseOf(t).status)
         /\ Normalized(ResponseOf(t)).form = "text")
        => /\ OutcomeOf(t).kind = "raise"
           /\ OutcomeOf(t).err = "Forbidden"
           /\ OutcomeOf(t).status = ResponseOf(t).status
           /\ OutcomeOf(t).data = Normalized(ResponseOf(t))

\* The methods that make no transport session and call request().
ExecutorCalls == SessionReaders \cup {"refresh_token", "HTTPClient.refresh_token"}

\* C18: while no login has made a transport session, every step of a
\* method that reaches request() (and of refresh_token) ends the call
\* with an error, hands nothing to the transport and leaves token, refresh
\* token and expiry unchanged; and a request is handed to the transport
\* only when a login has made a session.
C18_NothingBeforeLogin ==
    [][\A t \in Tasks :
          /\ (Steps(t) /\ sessions = <<>> /\ calls'[t].op \in ExecutorCalls)
                => /\ calls'[t].pc = "done"
                   /\ calls'[t].result.kind = "raise"
                   /\ calls'[t].sent = <<>>
                   /\ tokens' = tokens
          /\ Sends(t) => sessions' # <<>>]_vars

\* get_user on the client as constructed has failed before the transport.
C18_Witness ==
    \E t \in Tasks :
        /\ calls[t].op = "get_user"
        /\ Ended(t)
        /\ calls[t].result = OpRaise("AttributeError", None)
        /\ calls[t].sent = <<>>
        /\ sessions = <<>>
        /\ tokens = <<None, None, ConstructionTime>>

\* C19: send_verify_code goes on to another attempt only after a 5xx
\* response whose body has result "SUCCESS" and the subscriber-status
\* marker; on a 5xx response whose body has no result "SUCCESS" the call
\* ends there, raising the Forbidden of request().
C19_RetryNeedsSuccessMarker ==
    \A t \in Exchanged :
        calls[t].op = "send_verify_code" =>
            /\ InFlight(t) =>
                  /\ ResponseOf(t).status >= 500
                  /\ HasSuccessResult(ResponseOf(t))
                  /\ MarkedServerError(t)
            /\ (ResponseOf(t).status >= 500 /\ ~HasSuccessResult(ResponseOf(t))) =>
                  /\ Ended(t)
                  /\ calls[t].result.kind = "raise"
                  /\ calls[t].result.err = "Forbidden"

\* C20: a local_login call in which an existence check returned False has
\* sent no POST /auth/local.
C20_EveryCheckHonoured ==
    \A t \in Tasks :
        (/\ calls[t].op = "local_login"
         /\ \E i \in 1..Len(calls[t].checks) : calls[t].checks[i] = "False")
        => \A j \in 1..Len(calls[t].sent) : ~IsRequest(calls[t].sent[j], "POST", "/auth/local")

====
